---- MODULE Spec2Model ----
(***************************************************************************)
(* A model of the riskengine toolkit (Uniswap v3 liquidity-depth and       *)
(* slippage risk analytics).  Every subsystem of the repository is a group *)
(* of variables with its own actions and its own specification:            *)
(*   SpecDepth  univ3_depth.py   profile construction and depth curve      *)
(*   SpecSlip   univ3_execution.py  slippage heuristic                     *)
(*   SpecFetch  scripts/00_fetch_snapshot_ethusdc_mainnet.py  pagination   *)
(*   SpecRetry  gql_post (both fetch scripts)                              *)
(*   SpecStore  univ3_snapshot.py  save_snapshot / load_snapshot           *)
(*   SpecRange  univ3_tail.py  out_of_range_probability                    *)
(*   SpecTail   univ3_tail.py  simulate_price_paths_gbm, tail table        *)
(* A specification leaves the variables of the other subsystems at their   *)
(* "off" values.                                                           *)
(***************************************************************************)
EXTENDS Integers, Sequences, FiniteSets, TLC

VARIABLES
    \* univ3_depth.py
    ticks, current_tick, profile, current_price, pct_moves, depth_curve, pcDepth,
    \* univ3_execution.py
    slip_curve, trade_sizes, k, depth_level, slippage, slip_prev, pcSlip,
    \* scripts/00_fetch_snapshot_ethusdc_mainnet.py, the tick pagination of main
    pool_ticks, pool_tick, rows, last_tick, pages, pcFetch,
    \* gql_post of both fetch scripts
    gql_variant, retries, attempt, posts, responses, pcGql,
    \* univ3_snapshot.py and the files of a snapshot
    disk_meta, disk_ticks, snapshot, store_op, store_result, loaded,
    \* univ3_tail.py: out_of_range_probability
    price_paths, range_price0, range_probs, pcRange,
    \* univ3_tail.py: simulate_price_paths_gbm and tail_slippage_table
    rng, tail_call, tail_ref, calls_between,
    \* univ3_math.py: tick_to_price and price_to_tick
    tick_in, price_arg, tick_result, pcMath,
    \* slippage_from_depth_proxy applied to the curve of depth_curve_from_profile
    level_result, pcLevel

depthVars == <<ticks, current_tick, profile, current_price, pct_moves, depth_curve, pcDepth>>

slipVars == <<slip_curve, trade_sizes, k, depth_level, slippage, slip_prev, pcSlip>>

fetchVars == <<pool_ticks, pool_tick, rows, last_tick, pages, pcFetch>>

gqlVars == <<gql_variant, retries, attempt, posts, responses, pcGql>>

storeVars == <<disk_meta, disk_ticks, snapshot, store_op, store_result, loaded>>

rangeVars == <<price_paths, range_price0, range_probs, pcRange>>

tailVars == <<rng, tail_call, tail_ref, calls_between>>

mathVars == <<tick_in, price_arg, tick_result, pcMath>>

levelVars == <<level_result, pcLevel>>

vars == <<depthVars, slipVars, fetchVars, gqlVars, storeVars, rangeVars, tailVars, mathVars, levelVars>>

\* What the actions of one subsystem leave alone: the other subsystems.
depthOthers == <<slipVars, fetchVars, gqlVars, storeVars, rangeVars, tailVars, mathVars, levelVars>>
slipOthers == <<depthVars, fetchVars, gqlVars, storeVars, rangeVars, tailVars, mathVars, levelVars>>
fetchOthers == <<depthVars, slipVars, gqlVars, storeVars, rangeVars, tailVars, mathVars, levelVars>>
gqlOthers == <<depthVars, slipVars, fetchVars, storeVars, rangeVars, tailVars, mathVars, levelVars>>
storeOthers == <<depthVars, slipVars, fetchVars, gqlVars, rangeVars, tailVars, mathVars, levelVars>>
rangeOthers == <<depthVars, slipVars, fetchVars, gqlVars, storeVars, tailVars, mathVars, levelVars>>
tailOthers == <<depthVars, slipVars, fetchVars, gqlVars, storeVars, rangeVars, mathVars, levelVars>>
mathOthers == <<depthVars, slipVars, fetchVars, gqlVars, storeVars, rangeVars, tailVars, levelVars>>
levelOthers == <<depthVars, slipVars, fetchVars, gqlVars, storeVars, rangeVars, tailVars, mathVars>>

(***************************************************************************)
(* Arithmetic helpers                                                      *)
(***************************************************************************)
Abs(x) == IF x < 0 THEN -x ELSE x

Min2(a, b) == IF a <= b THEN a ELSE b

Max2(a, b) == IF a <= b THEN b ELSE a

\* n / d rounded to the nearest integer, ties to the even one.
RoundHalfEven(n, d) ==
    LET f == n \div d
        r == n % d
    IN  IF 2 * r < d THEN f
        ELSE IF 2 * r > d THEN f + 1
        ELSE IF f % 2 = 0 THEN f ELSE f + 1

RECURSIVE SumSeq(_)
SumSeq(s) == IF s = <<>> THEN 0 ELSE Head(s) + SumSeq(Tail(s))

RECURSIVE SumSet(_, _)
\* Sum of f[x] over the finite set S.
SumSet(f, S) == IF S = {} THEN 0
                ELSE LET x == CHOOSE y \in S : TRUE
                     IN  f[x] + SumSet(f, S \ {x})

(***************************************************************************)
(* univ3_math.py.  A price is a fixed-point number, a whole number of      *)
(* units with `unit` units per 1.0.  1.0001 ** tick is |tick| products by  *)
(* 1.0001 = 1 + 1/10000 or by 1/1.0001 = 1 - 1/10001, each rounded to the  *)
(* nearest unit as a float result is rounded to the nearest float.  The    *)
(* depth builder holds prices with PriceScale units per 1.0.               *)
(***************************************************************************)
PriceScale == 10000

\* p * 1.0002, rounded: the base of a tick taken as two basis points.
price_step_up_2bp(p) == p + RoundHalfEven(p, 5000)

\* p * 1.0001, rounded.
price_step_up(p) == p + RoundHalfEven(p, 10000)

\* p / 1.0001, rounded.
price_step_down(p) == p - RoundHalfEven(p, 10001)

RECURSIVE tick_to_price_at(_, _)
\* 1.0001 ** tick with `unit` units per 1.0.
tick_to_price_at(unit, tick) ==
    IF tick = 0 THEN unit
    ELSE IF tick > 0 THEN price_step_up(tick_to_price_at(unit, tick - 1))
    ELSE price_step_down(tick_to_price_at(unit, tick + 1))

tick_to_price(tick) == tick_to_price_at(PriceScale, tick)


(***************************************************************************)
(* univ3_depth.py: build_active_liquidity_profile                          *)
(***************************************************************************)
\* Bounds of the inputs.
MaxTicks == 3
TickMax == 2
TickWindow == 1

TickRange == (0 - TickMax)..TickMax
LiquidityNets == {-2, 3}
CurrentTicks == {0, 1}

TickRows == [tick : TickRange, liquidity_net : LiquidityNets]

\* DataFrames of at most MaxTicks rows with distinct ticks, in any row order.
TickFrames ==
    UNION { { f \in [1..n -> TickRows] :
                \A i, j \in 1..n : i # j => f[i].tick # f[j].tick } : n \in 0..MaxTicks }

RECURSIVE InsertByTick(_, _)
InsertByTick(row, sorted) ==
    IF sorted = <<>> THEN <<row>>
    ELSE IF row.tick < Head(sorted).tick THEN <<row>> \o sorted
    ELSE <<Head(sorted)>> \o InsertByTick(row, Tail(sorted))

RECURSIVE sort_values(_)
\* df.sort_values("tick")
sort_values(df) ==
    IF df = <<>> THEN <<>> ELSE InsertByTick(Head(df), sort_values(Tail(df)))

\* reset_index(drop=True): row i gets the index label i - 1.
reset_index(df) ==
    [i \in 1..Len(df) |-> [idx |-> i - 1, tick |-> df[i].tick,
                           liquidity_net |-> df[i].liquidity_net]]

\* The window filter keeps the index labels of the rows it keeps.
window_filter(df, cur, tick_window) ==
    SelectSeq(df, LAMBDA r : r.tick >= cur - tick_window /\ r.tick <= cur + tick_window)

\* Series.cumsum(): the running sum down the rows.
cumsum(df) ==
    [i \in 1..Len(df) |-> SumSeq([j \in 1..i |-> df[j].liquidity_net])]

\* idxmin resolving a tie to the last row of least distance (the upper tick).
idxmin_last(df, cur) ==
    LET best == CHOOSE i \in 1..Len(df) :
                    /\ \A j \in 1..Len(df) : Abs(df[i].tick - cur) <= Abs(df[j].tick - cur)
                    /\ \A j \in (i + 1)..Len(df) : Abs(df[j].tick - cur) > Abs(df[i].tick - cur)
    IN  df[best].idx

\* (df["tick"] - current_tick).abs().idxmin(): the index label of the first row
\* with the least distance; pandas raises ValueError on an empty frame.
idxmin(df, cur) ==
    LET best == CHOOSE i \in 1..Len(df) :
                    /\ \A j \in 1..Len(df) : Abs(df[i].tick - cur) <= Abs(df[j].tick - cur)
                    /\ \A j \in 1..(i - 1) : Abs(df[j].tick - cur) > Abs(df[i].tick - cur)
    IN  df[best].idx

\* df.loc[label, col]: the value of the row carrying the label.
loc(df, col, label) ==
    LET i == CHOOSE n \in 1..Len(df) : df[n].idx = label IN col[i]

build_active_liquidity_profile(tks, cur, tick_window) ==
    LET df   == window_filter(reset_index(sort_values(tks)), cur, tick_window)
        cum  == cumsum(df)
        idx0 == idxmin(df, cur)
        anchor == loc(df, cum, idx0)
    IN  [i \in 1..Len(df) |->
            [idx |-> df[i].idx, tick |-> df[i].tick, liquidity_net |-> df[i].liquidity_net,
             price |-> tick_to_price(df[i].tick),
             active_liquidity |-> Abs(cum[i] - anchor)]]

\* The call raises when the window holds no tick (idxmin of an empty column).
profile_raises(tks, cur, tick_window) ==
    window_filter(reset_index(sort_values(tks)), cur, tick_window) = <<>>

BuildProfile ==
    /\ pcDepth = "start"
    /\ IF profile_raises(ticks, current_tick, TickWindow)
       THEN /\ pcDepth' = "ValueError"
            /\ profile' = <<>>
       ELSE /\ pcDepth' = "profiled"
            /\ profile' = build_active_liquidity_profile(ticks, current_tick, TickWindow)
    /\ UNCHANGED <<ticks, current_tick, current_price, pct_moves, depth_curve>>
    /\ UNCHANGED depthOthers

(***************************************************************************)
(* univ3_depth.py: depth_curve_from_profile.  A pct_move is a number of    *)
(* 1/PriceScale units, so price_target = current_price * (1 + pct_move) is *)
(* the exact rational current_price * (PriceScale + pm) / PriceScale; the  *)
(* model keeps its numerator (PriceScale^2 units per 1.0) and compares     *)
(* prices at that scale.                                                   *)
(***************************************************************************)
CurrentPrices == {PriceScale, PriceScale + 1}
PctMoveSeqs == { <<>>, <<0>>, <<1, -2, 2, -1>>, <<2, -1, 2>> }

\* sorted([current_price, price_target]) at the scale of price_target.
sorted_pair(a, b) == IF a <= b THEN <<a, b>> ELSE <<b, a>>

RECURSIVE masked_sum_open(_, _, _)
\* The mask with the upper bound excluded.
masked_sum_open(prof, p_min, p_max) ==
    IF prof = <<>> THEN 0
    ELSE (IF Head(prof).price * PriceScale >= p_min /\ Head(prof).price * PriceScale < p_max
          THEN Head(prof).active_liquidity ELSE 0)
         + masked_sum_open(Tail(prof), p_min, p_max)

RECURSIVE masked_sum(_, _, _)
\* profile.loc[mask, "active_liquidity"].sum() with the mask p_min <= price <= p_max.
masked_sum(prof, p_min, p_max) ==
    IF prof = <<>> THEN 0
    ELSE (IF Head(prof).price * PriceScale >= p_min /\ Head(prof).price * PriceScale <= p_max
          THEN Head(prof).active_liquidity ELSE 0)
         + masked_sum(Tail(prof), p_min, p_max)

depth_row(prof, cp, pm) ==
    LET price_target == cp * (PriceScale + pm)
        pp == sorted_pair(cp * PriceScale, price_target)
    IN  [pct_move |-> pm, price_target |-> price_target,
         depth_proxy |-> masked_sum(prof, pp[1], pp[2])]

depth_curve_from_profile(prof, cp, pms) ==
    [i \in 1..Len(pms) |-> depth_row(prof, cp, pms[i])]

DepthCurve ==
    /\ pcDepth = "profiled"
    /\ \E cp \in CurrentPrices, pms \in PctMoveSeqs :
        /\ current_price' = cp
        /\ pct_moves' = pms
        /\ depth_curve' = depth_curve_from_profile(profile, cp, pms)
    /\ pcDepth' = "curved"
    /\ UNCHANGED <<ticks, current_tick, profile>>
    /\ UNCHANGED depthOthers

InitDepth ==
    /\ ticks \in TickFrames
    /\ current_tick \in CurrentTicks
    /\ profile = <<>>
    /\ current_price = 0
    /\ pct_moves = <<>>
    /\ depth_curve = <<>>
    /\ pcDepth = "start"

DepthOff ==
    /\ ticks = <<>>
    /\ current_tick = 0
    /\ profile = <<>>
    /\ current_price = 0
    /\ pct_moves = <<>>
    /\ depth_curve = <<>>
    /\ pcDepth = "off"

NextDepth == BuildProfile \/ DepthCurve

(***************************************************************************)
(* Properties of the depth builder                                         *)
(***************************************************************************)
\* The input ticks inside [current_tick - TickWindow, current_tick + TickWindow].
WindowTicks ==
    { t \in { ticks[i].tick : i \in 1..Len(ticks) } :
        t >= current_tick - TickWindow /\ t <= current_tick + TickWindow }

NetOf(t) == (CHOOSE r \in { ticks[i] : i \in 1..Len(ticks) } : r.tick = t).liquidity_net

\* The sum of liquidity_net over the windowed ticks up to t.
CumUpTo(t) == SumSet([u \in WindowTicks |-> NetOf(u)], { u \in WindowTicks : u <= t })

\* The windowed tick nearest to current_tick, the lower one on a tie.
AnchorTick ==
    CHOOSE t \in WindowTicks :
        \A u \in WindowTicks :
            \/ Abs(t - current_tick) < Abs(u - current_tick)
            \/ Abs(t - current_tick) = Abs(u - current_tick) /\ t <= u

\* C1: when the window holds at least one tick, build_active_liquidity_profile
\* returns one row per windowed tick in ascending tick order; the row of the
\* anchor tick (nearest to current_tick, the lower on a tie) has
\* active_liquidity exactly 0 and every row has active_liquidity equal to
\* |cumulative liquidity_net up to the row - cumulative liquidity_net at the
\* anchor|, which is >= 0.
C1_ProfileAnchoredAtZero ==
    (pcDepth \in {"ValueError", "profiled", "curved"} /\ WindowTicks # {}) =>
        /\ pcDepth # "ValueError"
        /\ Len(profile) = Cardinality(WindowTicks)
        /\ \A i \in 1..Len(profile) : profile[i].tick \in WindowTicks
        /\ \A i \in 1..(Len(profile) - 1) : profile[i].tick < profile[i + 1].tick
        /\ \A i \in 1..Len(profile) :
            /\ profile[i].active_liquidity =
                    Abs(CumUpTo(profile[i].tick) - CumUpTo(AnchorTick))
            /\ profile[i].active_liquidity >= 0
            /\ profile[i].tick = AnchorTick => profile[i].active_liquidity = 0

\* C1 witness: a profile built from unsorted input with a tick outside the
\* window and a tie for the nearest tick, whose other row is non-zero.
C1_Witness ==
    /\ pcDepth = "profiled"
    /\ Len(ticks) = 3 /\ ticks[1].tick > ticks[2].tick
    /\ Len(profile) = 2
    /\ current_tick - profile[1].tick = profile[2].tick - current_tick
    /\ profile[1].active_liquidity = 0
    /\ profile[2].active_liquidity > 0

\* The rows of the profile whose price lies in [lo, hi] at the scale of price_target.
RowsBetween(lo, hi) ==
    { j \in 1..Len(profile) :
        lo <= profile[j].price * PriceScale /\ profile[j].price * PriceScale <= hi }

\* C2: depth_curve_from_profile returns one row per pct_move, in input order,
\* with price_target = current_price * (1 + pct_move) and depth_proxy the sum of
\* active_liquidity over exactly the profile rows whose price lies between
\* min(current_price, price_target) and max(current_price, price_target), both
\* bounds included (0 when there is none).
C2_DepthProxyIsInclusiveSum ==
    pcDepth = "curved" =>
        /\ Len(depth_curve) = Len(pct_moves)
        /\ \A i \in 1..Len(pct_moves) :
            LET target == current_price * (PriceScale + pct_moves[i])
                here == current_price * PriceScale
            IN  /\ depth_curve[i].pct_move = pct_moves[i]
                /\ depth_curve[i].price_target = target
                /\ depth_curve[i].depth_proxy =
                        SumSet([j \in 1..Len(profile) |-> profile[j].active_liquidity],
                               RowsBetween(Min2(here, target), Max2(here, target)))

\* C2 witness: a downward move whose target price is exactly the price of a
\* profile row with liquidity (the bound is hit), with another row left out.
C2_Witness ==
    /\ pcDepth = "curved"
    /\ \E i \in 1..Len(depth_curve) :
        /\ depth_curve[i].pct_move < 0
        /\ depth_curve[i].depth_proxy > 0
        /\ \E j \in 1..Len(profile) :
            /\ profile[j].price * PriceScale = depth_curve[i].price_target
            /\ profile[j].active_liquidity > 0
        /\ \E j \in 1..Len(profile) :
            /\ profile[j].price * PriceScale > current_price * PriceScale
            /\ profile[j].active_liquidity > 0

(***************************************************************************)
(* Floating point.  A float is a non-negative multiple of the unit         *)
(* 1 / FloatScale carrying MantBits significant bits: the integers below   *)
(* 2^MantBits units are all floats (the subnormal range), above them only  *)
(* every 2nd, 4th, ... is.  Each operation computes the exact result and   *)
(* rounds it to the nearest float, ties to even, as IEEE 754 binary64 does *)
(* with 53 bits.                                                           *)
(***************************************************************************)
MantBits == 3
FracBits == 4

RECURSIVE Pow2(_)
Pow2(n) == IF n <= 0 THEN 1 ELSE 2 * Pow2(n - 1)

FloatScale == Pow2(FracBits)

RECURSIVE GridExp(_, _, _)
\* The least e >= from with n / d < 2^(MantBits + e): floats near n / d are 2^e apart.
GridExp(n, d, from) ==
    IF n < d * Pow2(MantBits + from) THEN from ELSE GridExp(n, d, from + 1)

\* The float nearest to n / d units.
fl_round(n, d) ==
    LET g == Pow2(GridExp(n, d, 0)) IN g * RoundHalfEven(n, d * g)

IsFloat(v) == fl_round(v, 1) = v

fl_add(a, b) == fl_round(a + b, 1)

fl_mul(a, b) == fl_round(a * b, FloatScale)

fl_div(a, b) == fl_round(a * FloatScale, b)

(***************************************************************************)
(* univ3_execution.py: slippage_from_depth_proxy                           *)
(***************************************************************************)
\* eps = 1e-12 in the source: here the smallest positive float.
eps == 1

\* k * trade_size * (depth_level + eps): the depth multiplied in, not divided out.
implied_slippage_times(kk, q, level) == fl_mul(fl_mul(kk, q), fl_add(level, eps))

\* slip = k * float(q) / (depth_level + eps)
implied_slippage(kk, q, level) == fl_div(fl_mul(kk, q), fl_add(level, eps))

RECURSIVE InsertByMove(_, _)
InsertByMove(row, sorted) ==
    IF sorted = <<>> THEN <<row>>
    ELSE IF row.pct_move < Head(sorted).pct_move THEN <<row>> \o sorted
    ELSE <<Head(sorted)>> \o InsertByMove(row, Tail(sorted))

RECURSIVE sort_by_pct_move(_)
\* depth_curve.sort_values("pct_move")
sort_by_pct_move(curve) ==
    IF curve = <<>> THEN <<>> ELSE InsertByMove(Head(curve), sort_by_pct_move(Tail(curve)))

\* The depth of the first row of the sorted curve, the largest downward move.
representative_depth_first(curve) == sort_by_pct_move(curve)[1].depth_proxy

\* depth_curve.sort_values("pct_move").iloc[len(depth_curve) // 2][depth_col]
representative_depth(curve) == sort_by_pct_move(curve)[(Len(curve) \div 2) + 1].depth_proxy

slippage_from_depth_proxy(curve, sizes, kk) ==
    LET level == representative_depth(curve)
    IN  [i \in 1..Len(sizes) |->
            [trade_size |-> sizes[i], implied_slippage |-> implied_slippage(kk, sizes[i], level)]]

\* Input values: depth proxies, trade sizes and k are floats.
DepthProxies == { v \in {7, 8, 12} : IsFloat(v) }
SlipMoveSeqs == { <<0>>, <<1, -1>>, <<-1, 0, 1>> }
SlipCurves ==
    UNION { { [i \in 1..Len(m) |-> [pct_move |-> m[i], depth_proxy |-> d[i]]] :
                d \in [1..Len(m) -> DepthProxies] } : m \in SlipMoveSeqs }
TradeSizeSeqs == { <<7, 8>>, <<16, 24>>, <<24, 16, 0>>, <<12>> }
Ks == { FloatScale \div 2, FloatScale }

\* One call with the trade sizes and k of this run and any depth curve; the
\* result of the call before it is kept for comparison.
SlippageFromDepthProxy ==
    /\ pcSlip \in {"start", "returned"}
    /\ \E curve \in SlipCurves :
        /\ slip_curve' = curve
        /\ depth_level' = representative_depth(curve)
        /\ slippage' = slippage_from_depth_proxy(curve, trade_sizes, k)
    /\ slip_prev' = IF pcSlip = "returned"
                    THEN <<[depth_level |-> depth_level, slippage |-> slippage]>>
                    ELSE <<>>
    /\ pcSlip' = "returned"
    /\ UNCHANGED <<trade_sizes, k>>
    /\ UNCHANGED slipOthers

InitSlip ==
    /\ slip_curve = <<>>
    /\ trade_sizes \in TradeSizeSeqs
    /\ k \in Ks
    /\ depth_level = 0
    /\ slippage = <<>>
    /\ slip_prev = <<>>
    /\ pcSlip = "start"

SlipOff ==
    /\ slip_curve = <<>>
    /\ trade_sizes = <<>>
    /\ k = 0
    /\ depth_level = 0
    /\ slippage = <<>>
    /\ slip_prev = <<>>
    /\ pcSlip = "off"

NextSlip == SlippageFromDepthProxy

(***************************************************************************)
(* Properties of the slippage heuristic                                    *)
(***************************************************************************)
SlipOf(i) == slippage[i].implied_slippage

PrevSlipOf(i) == slip_prev[1].slippage[i].implied_slippage

\* The call before this one used a smaller, positive depth_level.
DepthGrew == slip_prev # <<>> /\ 0 < slip_prev[1].depth_level /\ slip_prev[1].depth_level < depth_level

\* C3 (as claimed): for k > 0 and depth_level > 0 implied_slippage is strictly
\* increasing in trade_size (same call, same depth_level) and strictly
\* decreasing in depth_level (two calls, same k and trade_size > 0).
C3_StrictlyMonotone ==
    (pcSlip = "returned" /\ k > 0 /\ depth_level > 0) =>
        /\ \A i, j \in 1..Len(trade_sizes) :
                trade_sizes[i] < trade_sizes[j] => SlipOf(i) < SlipOf(j)
        /\ DepthGrew =>
                \A i \in 1..Len(trade_sizes) :
                    trade_sizes[i] > 0 => SlipOf(i) < PrevSlipOf(i)

\* C3 (amended): for k > 0 and depth_level > 0 implied_slippage is
\* non-decreasing in trade_size and non-increasing in depth_level: every
\* floating-point operation of k * q / (depth_level + eps) rounds, so distinct
\* inputs can give equal slippage, but the order is never reversed.
C3_WeaklyMonotone ==
    (pcSlip = "returned" /\ k > 0 /\ depth_level > 0) =>
        /\ \A i, j \in 1..Len(trade_sizes) :
                trade_sizes[i] < trade_sizes[j] => SlipOf(i) <= SlipOf(j)
        /\ DepthGrew =>
                \A i \in 1..Len(trade_sizes) :
                    trade_sizes[i] > 0 => SlipOf(i) <= PrevSlipOf(i)

\* C3 witness: a second call with a larger depth_level whose slippage is
\* strictly smaller, for trade sizes whose slippage strictly increases.
C3_Witness ==
    /\ pcSlip = "returned" /\ k > 0 /\ DepthGrew
    /\ Len(trade_sizes) >= 2
    /\ trade_sizes[1] < trade_sizes[2] /\ SlipOf(1) < SlipOf(2)
    /\ SlipOf(1) < PrevSlipOf(1)

(***************************************************************************)
(* scripts/00_fetch_snapshot_ethusdc_mainnet.py: the tick pagination loop  *)
(* of main.  PAGE_SIZE is 1000 and TICK_WINDOW 50000 in the source; the    *)
(* model runs the same loop with small values.                             *)
(***************************************************************************)
PAGE_SIZE == 2
TICK_WINDOW == 2
PoolTickMax == 3

PoolTickRange == (0 - PoolTickMax)..PoolTickMax
PoolCurrentTicks == {0, 1}

RECURSIVE Ascending(_)
\* The elements of a finite set of integers in ascending order.
Ascending(S) ==
    IF S = {} THEN <<>>
    ELSE LET m == CHOOSE x \in S : \A y \in S : x <= y
         IN  <<m>> \o Ascending(S \ {m})

FirstN(seq, n) == SubSeq(seq, 1, Min2(n, Len(seq)))

\* The where clause with tickIdx_gte: $last in place of tickIdx_gt: $last.
ticks_query_gte(pool, minTick, maxTick, last, first) ==
    FirstN(Ascending({ t \in pool : t >= minTick /\ t <= maxTick /\ t >= last }), first)

\* TICKS_QUERY: the first `first` ticks of the pool, ascending by tickIdx, with
\* tickIdx_gte minTick, tickIdx_lte maxTick and tickIdx_gt last.
ticks_query(pool, minTick, maxTick, last, first) ==
    FirstN(Ascending({ t \in pool : t >= minTick /\ t <= maxTick /\ t > last }), first)

min_tick == pool_tick - TICK_WINDOW

max_tick == pool_tick + TICK_WINDOW

\* One iteration of the while True loop.
FetchPage ==
    /\ pcFetch = "loop"
    /\ pages' = pages + 1
    /\ LET page == ticks_query(pool_ticks, min_tick, max_tick, last_tick, PAGE_SIZE)
       IN  IF page = <<>>
           THEN /\ pcFetch' = "done"
                /\ UNCHANGED <<rows, last_tick>>
           ELSE /\ rows' = rows \o page
                /\ last_tick' = page[Len(page)]
                /\ pcFetch' = IF Len(page) < PAGE_SIZE THEN "done" ELSE "loop"
    /\ UNCHANGED <<pool_ticks, pool_tick>>
    /\ UNCHANGED fetchOthers

\* ticks_df = pd.DataFrame(rows).sort_values("tick"): a frame built from no row
\* has no column "tick", and sort_values raises KeyError.
BuildTicksFrame ==
    /\ pcFetch = "done"
    /\ IF rows = <<>>
       THEN /\ pcFetch' = "KeyError"
            /\ rows' = rows
       ELSE /\ pcFetch' = "sorted"
            /\ rows' = Ascending({ rows[i] : i \in 1..Len(rows) })
    /\ UNCHANGED <<pool_ticks, pool_tick, last_tick, pages>>
    /\ UNCHANGED fetchOthers

InitFetch ==
    /\ pool_ticks \in SUBSET PoolTickRange
    /\ pool_tick \in PoolCurrentTicks
    /\ rows = <<>>
    /\ last_tick = min_tick - 1
    /\ pages = 0
    /\ pcFetch = "loop"

FetchOff ==
    /\ pool_ticks = {}
    /\ pool_tick = 0
    /\ rows = <<>>
    /\ last_tick = 0
    /\ pages = 0
    /\ pcFetch = "off"

NextFetch == FetchPage \/ BuildTicksFrame

(***************************************************************************)
(* Properties of the pagination                                            *)
(***************************************************************************)
\* The pool's ticks inside [current tick - TICK_WINDOW, current tick + TICK_WINDOW].
WindowOfPool == { t \in pool_ticks : t >= min_tick /\ t <= max_tick }

LoopExited == pcFetch \in {"done", "sorted", "KeyError"}

\* On exit the rows are the windowed ticks, each once, in ascending order.
RowsAreWindow ==
    /\ Len(rows) = Cardinality(WindowOfPool)
    /\ \A i \in 1..Len(rows) : rows[i] \in WindowOfPool
    /\ \A i \in 1..(Len(rows) - 1) : rows[i] < rows[i + 1]

\* C4 (as claimed): the pagination loop terminates, on exit the collected rows
\* are exactly the pool's ticks in the window, each once and ascending, and the
\* cursor last_tick strictly increases on every iteration of the loop.
C4_CursorIncreasesEveryIteration ==
    /\ <>LoopExited
    /\ [](LoopExited => RowsAreWindow)
    /\ [][pages' # pages => last_tick' > last_tick]_vars

\* C4 (amended): the pagination loop terminates, on exit the collected rows are
\* exactly the pool's ticks in the window, each once and ascending, and the
\* cursor last_tick strictly increases on every iteration that receives a
\* non-empty page; an iteration that receives an empty page (the last one when
\* the number of windowed ticks is a multiple of PAGE_SIZE, zero included)
\* leaves the cursor unchanged and exits.
C4_CursorIncreasesOnEveryPage ==
    /\ <>LoopExited
    /\ [](LoopExited => RowsAreWindow)
    /\ [][pages' # pages =>
            IF rows' # rows
            THEN last_tick' > last_tick
            ELSE last_tick' = last_tick /\ pcFetch' = "done"]_vars

\* C4 witness: the loop has exited after two full pages and a last, empty one,
\* with ticks of the pool left outside the window.
C4_Witness ==
    /\ pcFetch = "done"
    /\ pages = 3
    /\ Len(rows) = 2 * PAGE_SIZE
    /\ WindowOfPool # pool_ticks

(***************************************************************************)
(* gql_post.  riskengine/scripts/fetch_snapshot_ethusdc_mainnet.py has the *)
(* retry loop ("engine"); scripts/00_fetch_snapshot_ethusdc_mainnet.py     *)
(* posts once ("script00").  What one POST can come to:                    *)
(*   data       a JSON body with "data" and no "errors"                    *)
(*   errors     a JSON body with "errors"                                  *)
(*   not_json   a body that is not JSON, with a 2xx status                 *)
(*   http_error a 4xx/5xx status with a body that is not JSON              *)
(*   no_data    a JSON body with neither "errors" nor "data"               *)
(*   transport  requests.post raises (connection error, the 60 s timeout)  *)
(***************************************************************************)
MaxRetries == 3

Outcomes == {"data", "errors", "not_json", "http_error", "no_data", "transport"}

\* One pass of `for i in range(retries)` (attempt is the loop's i): the POST and what the body leads to.
\* The sleeps of 1.0 * (i + 1) seconds before `continue` change no state.
GqlPostAttempt ==
    /\ pcGql = "loop"
    /\ gql_variant = "engine"
    /\ attempt < retries
    /\ \E outcome \in Outcomes :
        /\ posts' = posts + 1
        /\ responses' = Append(responses, outcome)
        /\ CASE outcome = "transport" -> pcGql' = "RequestException" /\ attempt' = attempt
             [] outcome \in {"not_json", "http_error", "errors"} -> pcGql' = "loop" /\ attempt' = attempt + 1
             [] outcome = "no_data" -> pcGql' = "KeyError" /\ attempt' = attempt
             [] outcome = "data" -> pcGql' = "returned" /\ attempt' = attempt
    /\ UNCHANGED <<gql_variant, retries>>
    /\ UNCHANGED gqlOthers

\* The loop is exhausted: raise RuntimeError("GraphQL request failed after ...").
GqlPostGiveUp ==
    /\ pcGql = "loop"
    /\ gql_variant = "engine"
    /\ attempt >= retries
    /\ pcGql' = "RuntimeError"
    /\ UNCHANGED <<gql_variant, retries, attempt, posts, responses>>
    /\ UNCHANGED gqlOthers

\* gql_post of scripts/00: one POST, raise_for_status, r.json(), the errors check.
GqlPost00 ==
    /\ pcGql = "loop"
    /\ gql_variant = "script00"
    /\ \E outcome \in Outcomes :
        /\ posts' = posts + 1
        /\ responses' = Append(responses, outcome)
        /\ pcGql' = CASE outcome = "transport" -> "RequestException"
                       [] outcome = "http_error" -> "HTTPError"
                       [] outcome = "not_json" -> "JSONDecodeError"
                       [] outcome = "errors" -> "RuntimeError"
                       [] outcome = "no_data" -> "KeyError"
                       [] outcome = "data" -> "returned"
    /\ UNCHANGED <<gql_variant, retries, attempt>>
    /\ UNCHANGED gqlOthers

\* scripts/00's gql_post takes no retries argument: it is one attempt.
InitGql ==
    /\ gql_variant \in {"engine", "script00"}
    /\ retries \in 0..MaxRetries
    /\ gql_variant = "script00" => retries = 1
    /\ attempt = 0
    /\ posts = 0
    /\ responses = <<>>
    /\ pcGql = "loop"

GqlOff ==
    /\ gql_variant = "off"
    /\ retries = 0
    /\ attempt = 0
    /\ posts = 0
    /\ responses = <<>>
    /\ pcGql = "off"

NextGql == GqlPostAttempt \/ GqlPostGiveUp \/ GqlPost00

(***************************************************************************)
(* Properties of gql_post                                                  *)
(***************************************************************************)
GqlRaised == pcGql \notin {"loop", "returned", "off"}

Failed(n) == responses[n] # "data"

\* C5: gql_post (the one with the retries argument) issues at most `retries`
\* POST requests; it returns on the first attempt that succeeds, with no
\* request after it; it raises only when `retries` attempts have all failed,
\* and then RuntimeError; so every failed request is retried while attempts
\* remain.
C5_BoundedRetry ==
    gql_variant = "engine" =>
        /\ posts <= retries
        /\ posts = Len(responses)
        /\ pcGql = "returned" =>
                /\ responses[posts] = "data"
                /\ \A n \in 1..(posts - 1) : Failed(n)
        /\ GqlRaised =>
                /\ pcGql = "RuntimeError"
                /\ posts = retries
                /\ \A n \in 1..posts : Failed(n)
        /\ (posts > 0 /\ Failed(posts) /\ posts < retries) => pcGql = "loop"

(***************************************************************************)
(* univ3_snapshot.py.  A ticks table is a function from its column names   *)
(* to columns of equal length; a cell is a number or NaN.  A file of the   *)
(* disk is [exists, ...]: the meta file carries the keys of its JSON       *)
(* object, the ticks file a table.                                         *)
(***************************************************************************)
MaxRows == 1

Cells == {"num", "NaN"}
\* The optional liquidity_gross / liquidityGross column is left out: nothing reads it.
SnapshotColumns == {"tick", "liquidity_net"}
RawColumns == {"tickIdx", "liquidityNet"}

TablesOver(columnSets) ==
    UNION { [c -> [1..n -> Cells]] : c \in columnSets, n \in 0..MaxRows }

Tables == TablesOver(SUBSET SnapshotColumns)

NoFile == [exists |-> FALSE, keys |-> {}, table |-> <<>>]

MetaFile(keys) == [exists |-> TRUE, keys |-> keys, table |-> <<>>]

TicksFile(table) == [exists |-> TRUE, keys |-> {}, table |-> table]

\* The keys save_snapshot writes, and the ones load_snapshot reads.
SavedMetaKeys ==
    {"pool_name", "fee_tier", "timestamp_utc", "current_tick", "current_price", "ticks_file"}
LoadedMetaKeys == {"pool_name", "fee_tier", "timestamp_utc", "current_tick", "current_price"}

\* The pool object riskengine/scripts/fetch_snapshot_ethusdc_mainnet.py dumps.
RawPoolKeys == {"id", "feeTier", "tick", "sqrtPrice", "liquidity", "token0", "token1"}

isna_any(table, col) == \E n \in 1..Len(table[col]) : table[col][n] = "NaN"

\* validate without the check of liquidity_net for NaN.
validate_tick_only(table) ==
    IF {"tick", "liquidity_net"} \ DOMAIN table # {} THEN "ValueError"
    ELSE IF isna_any(table, "tick") THEN "ValueError"
    ELSE "ok"

\* UniV3Snapshot.validate
validate(table) ==
    IF {"tick", "liquidity_net"} \ DOMAIN table # {} THEN "ValueError"
    ELSE IF isna_any(table, "tick") THEN "ValueError"
    ELSE IF isna_any(table, "liquidity_net") THEN "ValueError"
    ELSE "ok"

\* save_snapshot: what it raises or "saved", and the two files afterwards.
save_snapshot(snap, meta, tks) ==
    IF validate(snap) # "ok"
    THEN [result |-> validate(snap), meta |-> meta, ticks |-> tks]
    ELSE [result |-> "saved", meta |-> MetaFile(SavedMetaKeys), ticks |-> TicksFile(snap)]

\* load_snapshot: what it raises or "returned", and the ticks of the snapshot.
load_snapshot(meta, tks) ==
    IF ~meta.exists THEN [result |-> "FileNotFoundError", ticks |-> <<>>]
    ELSE IF ~tks.exists THEN [result |-> "FileNotFoundError", ticks |-> <<>>]
    ELSE IF LoadedMetaKeys \ meta.keys # {} THEN [result |-> "KeyError", ticks |-> <<>>]
    ELSE IF validate(tks.table) # "ok" THEN [result |-> validate(tks.table), ticks |-> <<>>]
    ELSE [result |-> "returned", ticks |-> tks.table]

SaveSnapshot ==
    /\ store_op # "off"
    /\ \E snap \in Tables :
        LET r == save_snapshot(snap, disk_meta, disk_ticks)
        IN  /\ snapshot' = snap
            /\ store_result' = r.result
            /\ disk_meta' = r.meta
            /\ disk_ticks' = r.ticks
    /\ store_op' = "save"
    /\ loaded' = <<>>
    /\ UNCHANGED storeOthers

LoadSnapshot ==
    /\ store_op # "off"
    /\ LET r == load_snapshot(disk_meta, disk_ticks)
       IN  /\ store_result' = r.result
           /\ loaded' = r.ticks
    /\ store_op' = "load"
    /\ snapshot' = <<>>
    /\ UNCHANGED <<disk_meta, disk_ticks>>
    /\ UNCHANGED storeOthers

\* main of riskengine/scripts/fetch_snapshot_ethusdc_mainnet.py writes
\* <prefix>.meta.json (the pool object) and <prefix>.ticks.parquet (the raw
\* subgraph columns, at least one row), the two names load_snapshot reads.
RawFetchMain ==
    /\ store_op # "off"
    /\ \E table \in TablesOver({RawColumns}) :
        /\ Len(table["tickIdx"]) > 0
        /\ disk_ticks' = TicksFile(table)
    /\ disk_meta' = MetaFile(RawPoolKeys)
    /\ store_op' = "raw"
    /\ store_result' = "written"
    /\ loaded' = <<>>
    /\ snapshot' = <<>>
    /\ UNCHANGED storeOthers

\* The disk at the start: no snapshot, or the files of a snapshot put there
\* from elsewhere (the 00 script's snapshots are downloaded), whatever its table.
InitStore ==
    /\ disk_meta \in {NoFile, MetaFile(SavedMetaKeys)}
    /\ disk_ticks \in {NoFile} \cup { TicksFile(t) : t \in Tables }
    /\ snapshot = <<>>
    /\ store_op = "none"
    /\ store_result = "none"
    /\ loaded = <<>>

StoreOff ==
    /\ disk_meta = NoFile
    /\ disk_ticks = NoFile
    /\ snapshot = <<>>
    /\ store_op = "off"
    /\ store_result = "none"
    /\ loaded = <<>>

NextStore == SaveSnapshot \/ LoadSnapshot \/ RawFetchMain

(***************************************************************************)
(* Properties of the snapshot store                                        *)
(***************************************************************************)
HasNull(table, col) == \E n \in DOMAIN table[col] : table[col][n] = "NaN"

\* The table lacks tick or liquidity_net, or has a null in either.
Invalid(table) ==
    \/ "tick" \notin DOMAIN table
    \/ "liquidity_net" \notin DOMAIN table
    \/ HasNull(table, "tick")
    \/ HasNull(table, "liquidity_net")

\* What holds of save_snapshot, and of load_snapshot for a missing file or a
\* returned snapshot.
StoreCommon ==
    /\ [](store_op = "save" =>
            IF Invalid(snapshot)
            THEN store_result = "ValueError"
            ELSE store_result = "saved" /\ disk_ticks = TicksFile(snapshot)
                 /\ disk_meta.exists)
    /\ [][(store_op' = "save" /\ Invalid(snapshot')) =>
            (disk_meta' = disk_meta /\ disk_ticks' = disk_ticks)]_vars
    /\ []((store_op = "load" /\ (~disk_meta.exists \/ ~disk_ticks.exists)) =>
            store_result = "FileNotFoundError")
    /\ []((store_op = "load" /\ store_result = "returned") =>
            (loaded = disk_ticks.table /\ ~Invalid(loaded)))

MaxRangePaths == 2
RangeSteps == 1

PathPrices == {90, 100, 103}
RangePrice0s == {100, 96}
\* 0.01, 0.02, 0.05 are config.py's lp_ranges_pct.
LpRangesPct == <<1, 2, 5, 20, 150>>

PricePathArrays ==
    UNION { [1..n -> [1..(RangeSteps + 1) -> PathPrices]] : n \in 1..MaxRangePaths }

in_band(p, price0, r) ==
    ~(p * 100 < price0 * (100 - r) \/ p * 100 > price0 * (100 + r))

\* breached = (price_paths < low) | (price_paths > high), elementwise
breached(p, price0, r) ==
    p * 100 < price0 * (100 - r) \/ p * 100 > price0 * (100 + r)

\* breached.any(axis=1).mean()
out_of_range_probability(paths, price0, r) ==
    [num |-> Cardinality({ n \in 1..Len(paths) :
                            \E t \in 1..Len(paths[n]) : breached(paths[n][t], price0, r) }),
     den |-> Len(paths)]

\* The function applied to the same paths and price0 for each LP range.
OutOfRangeProbability ==
    /\ pcRange = "start"
    /\ range_probs' = [n \in 1..Len(LpRangesPct) |->
                          out_of_range_probability(price_paths, range_price0, LpRangesPct[n])]
    /\ pcRange' = "done"
    /\ UNCHANGED <<price_paths, range_price0>>
    /\ UNCHANGED rangeOthers

InitRange ==
    /\ price_paths \in PricePathArrays
    /\ range_price0 \in RangePrice0s
    /\ range_probs = <<>>
    /\ pcRange = "start"

RangeOff ==
    /\ price_paths = <<>>
    /\ range_price0 = 0
    /\ range_probs = <<>>
    /\ pcRange = "off"

NextRange == OutOfRangeProbability

(***************************************************************************)
(* Properties of out_of_range_probability                                  *)
(***************************************************************************)
\* C7: for the same non-empty paths and price0 > 0, the out-of-range
\* probability for a range r1 <= r2 is >= the one for r2, and every
\* probability lies in [0, 1].
C7_TighterBandBreachesMore ==
    pcRange = "done" =>
        /\ \A n \in 1..Len(LpRangesPct) :
            /\ range_probs[n].den = Len(price_paths)
            /\ 0 <= range_probs[n].num
            /\ range_probs[n].num <= range_probs[n].den
        /\ \A m, n \in 1..Len(LpRangesPct) :
                LpRangesPct[m] <= LpRangesPct[n] => range_probs[m].num >= range_probs[n].num

\* C7 witness: the probability falls strictly from the tightest range to a
\* wider one and again to the widest, through a value strictly inside (0, 1).
C7_Witness ==
    /\ pcRange = "done"
    /\ range_probs[1].num = range_probs[1].den
    /\ range_probs[3].num > 0 /\ range_probs[3].num < range_probs[1].num
    /\ range_probs[5].num = 0

(***************************************************************************)
(* univ3_tail.py: the random generator.  np.random.default_rng(seed) is a  *)
(* generator whose state is a function of the seed alone; each draw        *)
(* advances the state and reads the new state.  The generator is a small   *)
(* full-period congruential one and a standard normal draw is one of       *)
(* -1, 0, 1.  The variable rng is the generator of the call last made.     *)
(***************************************************************************)
\* A generator that goes on from the state the last call left.
default_rng_shared(seed) == rng

\* np.random.default_rng(seed)
default_rng(seed) == (7 * seed + 1) % 16

rng_next(s) == (5 * s + 3) % 16

RECURSIVE rng_after(_, _)
\* The state after n draws.
rng_after(s, n) == IF n = 0 THEN s ELSE rng_after(rng_next(s), n - 1)

\* The value a draw reads off the state it has advanced to.
normal_of(s) == ((s \div 2) % 3) - 1

\* rng.standard_normal((n_rows, n_cols)): the array is filled row by row.
standard_normal(s, n_rows, n_cols) ==
    [p \in 1..n_rows |-> [t \in 1..n_cols |-> normal_of(rng_after(s, (p - 1) * n_cols + t))]]

(***************************************************************************)
(* simulate_price_paths_gbm.  A log-price is a whole number of units of    *)
(* ln 2 and sigma_annual a whole number of units of ln 2 * sqrt(365), so   *)
(* sigma_annual * sqrt(dt) with dt = 1 / (365 * steps_per_day) is          *)
(* sigma / sqrt(steps_per_day) log units, exact for the square             *)
(* steps_per_day in use, and exp(L) is 2^L.                                *)
(***************************************************************************)
MaxHorizon == 1
MaxPaths == 2

Price0s == {4096}
Sigmas == {2, 4}
StepsPerDay == {1, 4}
Seeds == {42, 7}
NPaths == {0, MaxPaths}

isqrt(n) == CHOOSE r \in 0..n : r * r = n

\* sigma_annual * np.sqrt(dt), dt = 1.0 / (365.0 * steps_per_day)
sigma_sqrt_dt(sigma_annual, steps_per_day) == sigma_annual \div isqrt(steps_per_day)

\* np.cumsum(increments, axis=1)
cumsum_rows(m) ==
    [p \in 1..Len(m) |-> [t \in 1..Len(m[p]) |-> SumSeq(SubSeq(m[p], 1, t))]]

\* The paths without the column of zeros in front.
without_zero_column(m) == m

\* np.concatenate([np.zeros((n_paths, 1)), log_paths], axis=1)
with_zero_column(m) == [p \in 1..Len(m) |-> <<0>> \o m[p]]

\* price0 * np.exp(x), truncated to the price unit below 1.
price0_exp(price0, x) ==
    IF x >= 0 THEN price0 * Pow2(x) ELSE price0 \div Pow2(0 - x)

simulate_price_paths_gbm(price0, sigma_annual, horizon_days, steps_per_day, n_paths, seed) ==
    LET s0 == default_rng(seed)
        n_steps == horizon_days * steps_per_day
        z == standard_normal(s0, n_paths, n_steps)
        increments == [p \in 1..n_paths |-> [t \in 1..n_steps |->
                          sigma_sqrt_dt(sigma_annual, steps_per_day) * z[p][t]]]
        log_paths == with_zero_column(cumsum_rows(increments))
    IN  [log_paths |-> log_paths,
         paths |-> [p \in 1..n_paths |-> [t \in 1..Len(log_paths[p]) |->
                      price0_exp(price0, log_paths[p][t])]],
         rng |-> rng_after(s0, n_paths * n_steps)]

(***************************************************************************)
(* tail_slippage_table.  The caller's slippage_model_func(sigma, q, rng)   *)
(* is one of three functions that draw only from the rng they are passed:  *)
(* one draw, two draws, or none.  A quantile is kept in hundredths.        *)
(***************************************************************************)
MaxMc == 3

SlippageFuncs == {"one_draw", "two_draws", "no_draw"}
VolRegimes == { <<2, 4>> }
TailTradeSizes == { <<3, 1>> }
NMcs == {1, MaxMc}

\* slippage_model_func(sigma, q, rng): the value and the generator afterwards.
slippage_model_func(f, sigma, q, s) ==
    CASE f = "one_draw" ->
            [value |-> sigma * q * (normal_of(rng_next(s)) + 2), rng |-> rng_next(s)]
      [] f = "two_draws" ->
            [value |-> q + sigma * (normal_of(rng_next(s)) + normal_of(rng_after(s, 2))),
             rng |-> rng_after(s, 2)]
      [] f = "no_draw" -> [value |-> sigma * q, rng |-> s]

RECURSIVE draw_samples(_, _, _, _, _)
\* [float(slippage_model_func(sigma, float(q), rng)) for _ in range(n_mc)]
draw_samples(f, sigma, q, s, n) ==
    IF n = 0 THEN [samples |-> <<>>, rng |-> s]
    ELSE LET one == slippage_model_func(f, sigma, q, s)
             rest == draw_samples(f, sigma, q, one.rng, n - 1)
         IN  [samples |-> <<one.value>> \o rest.samples, rng |-> rest.rng]

RECURSIVE InsertSorted(_, _)
InsertSorted(x, sorted) ==
    IF sorted = <<>> THEN <<x>>
    ELSE IF x <= Head(sorted) THEN <<x>> \o sorted
    ELSE <<Head(sorted)>> \o InsertSorted(x, Tail(sorted))

RECURSIVE SortAscending(_)
SortAscending(xs) == IF xs = <<>> THEN <<>> ELSE InsertSorted(Head(xs), SortAscending(Tail(xs)))

\* np.quantile(samples, pct / 100), linear interpolation between the two order
\* statistics around the position (n - 1) * pct / 100; the value in hundredths.
quantile(samples, pct) ==
    LET sorted == SortAscending(samples)
        pos == (Len(samples) - 1) * pct
        lo == (pos \div 100) + 1
        frac == pos % 100
    IN  IF frac = 0 THEN 100 * sorted[lo]
        ELSE sorted[lo] * (100 - frac) + sorted[lo + 1] * frac

\* The row with the two quantile levels exchanged.
tail_row_swapped(sigma, q, samples) ==
    [sigma_annual |-> sigma, trade_size |-> q, calls |-> Len(samples),
     p95_slippage |-> quantile(samples, 99), p99_slippage |-> quantile(samples, 95)]

\* One row of the table, with the number of calls its samples came from.
tail_row(sigma, q, samples) ==
    [sigma_annual |-> sigma, trade_size |-> q, calls |-> Len(samples),
     p95_slippage |-> quantile(samples, 95), p99_slippage |-> quantile(samples, 99)]

RECURSIVE tail_rows(_, _, _, _, _, _)
\* The two nested loops from the pair (a, b) of indexes on, sigma outermost.
tail_rows(f, sigmas, sizes, n_mc, s, ab) ==
    IF ab[1] > Len(sigmas) THEN [rows |-> <<>>, rng |-> s]
    ELSE IF ab[2] > Len(sizes) THEN tail_rows(f, sigmas, sizes, n_mc, s, <<ab[1] + 1, 1>>)
    ELSE LET got == draw_samples(f, sigmas[ab[1]], sizes[ab[2]], s, n_mc)
             rest == tail_rows(f, sigmas, sizes, n_mc, got.rng, <<ab[1], ab[2] + 1>>)
         IN  [rows |-> <<tail_row(sigmas[ab[1]], sizes[ab[2]], got.samples)>> \o rest.rows,
              rng |-> rest.rng]

tail_slippage_table(f, sigmas, sizes, n_mc, seed) ==
    tail_rows(f, sigmas, sizes, n_mc, default_rng(seed), <<1, 1>>)

NoCall == [fn |-> "none", args |-> <<>>, log_paths |-> <<>>, paths |-> <<>>, table |-> <<>>]

\* The first call made is kept in tail_ref when the second is made;
\* calls_between says that further calls have been made since.
KeepReference ==
    /\ tail_ref' = IF tail_ref.fn = "none" THEN tail_call ELSE tail_ref
    /\ calls_between' = (tail_ref.fn # "none")

\* Any call of simulate_price_paths_gbm.
SimulatePricePathsGbm ==
    /\ rng >= 0
    /\ \E price0 \in Price0s, sigma \in Sigmas, h \in 0..MaxHorizon, spd \in StepsPerDay,
          n \in NPaths, seed \in Seeds :
        LET r == simulate_price_paths_gbm(price0, sigma, h, spd, n, seed)
        IN  /\ tail_call' = [fn |-> "simulate_price_paths_gbm",
                             args |-> <<price0, sigma, h, spd, n, seed>>,
                             log_paths |-> r.log_paths, paths |-> r.paths, table |-> <<>>]
            /\ rng' = r.rng
    /\ KeepReference
    /\ UNCHANGED tailOthers

\* Any call of tail_slippage_table.
TailSlippageTable ==
    /\ rng >= 0
    /\ \E f \in SlippageFuncs, sigmas \in VolRegimes, sizes \in TailTradeSizes,
          n_mc \in NMcs, seed \in Seeds :
        LET r == tail_slippage_table(f, sigmas, sizes, n_mc, seed)
        IN  /\ tail_call' = [fn |-> "tail_slippage_table",
                             args |-> <<f, sigmas, sizes, n_mc, seed>>,
                             log_paths |-> <<>>, paths |-> <<>>, table |-> r.rows]
            /\ rng' = r.rng
    /\ KeepReference
    /\ UNCHANGED tailOthers

InitTail ==
    /\ rng = 0
    /\ tail_call = NoCall
    /\ tail_ref = NoCall
    /\ calls_between = FALSE

TailOff ==
    /\ rng = -1
    /\ tail_call = NoCall
    /\ tail_ref = NoCall
    /\ calls_between = FALSE

NextTail == SimulatePricePathsGbm \/ TailSlippageTable

IsTable == tail_call.fn = "tail_slippage_table"
IsPaths == tail_call.fn = "simulate_price_paths_gbm"

\* C8: the table of a call of tail_slippage_table has one row per pair
\* (sigma, trade_size), the rows of the first sigma first and within a sigma in
\* the order of the trade sizes; every row is computed from n_mc calls of the
\* slippage function and its p99_slippage is at least its p95_slippage.
C8_OneOrderedRowPerPair ==
    IsTable =>
        LET sigmas == tail_call.args[2]
            sizes == tail_call.args[3]
            n_mc == tail_call.args[4]
            table == tail_call.table
        IN  /\ Len(table) = Len(sigmas) * Len(sizes)
            /\ \A a \in 1..Len(sigmas) : \A b \in 1..Len(sizes) :
                   LET row == table[(a - 1) * Len(sizes) + b]
                   IN  /\ row.sigma_annual = sigmas[a]
                       /\ row.trade_size = sizes[b]
                       /\ row.calls = n_mc
                       /\ row.p99_slippage >= row.p95_slippage

\* A table of two sigmas by two trade sizes from three samples a row, with a
\* row whose p99 is above its p95.
C8_Witness ==
    /\ IsTable
    /\ Len(tail_call.table) = 4
    /\ tail_call.args[4] = MaxMc
    /\ \E a \in 1..4 : tail_call.table[a].p99_slippage > tail_call.table[a].p95_slippage

\* The number of the draw that makes step t of path p, the array being filled
\* row by row from the generator of the seed.
DrawOf(seed, n_steps, p, t) == normal_of(rng_after(default_rng(seed), (p - 1) * n_steps + t))

\* C9: a call of simulate_price_paths_gbm returns n_paths paths of
\* horizon_days * steps_per_day + 1 values; every path has log-price 0 and price
\* price0 at step 0; and the log-price at each later step is the one before
\* plus scale * z, z the draw of that step and scale = sigma_annual * sqrt(dt),
\* that is scale^2 * steps_per_day = sigma_annual^2 in the log unit in use.
C9_PathsFollowIncrements ==
    IsPaths =>
        LET price0 == tail_call.args[1]
            sigma == tail_call.args[2]
            n_steps == tail_call.args[3] * tail_call.args[4]
            n_paths == tail_call.args[5]
            seed == tail_call.args[6]
            lp == tail_call.log_paths
        IN  /\ Len(tail_call.paths) = n_paths
            /\ \A p \in 1..n_paths :
                   /\ Len(tail_call.paths[p]) = n_steps + 1
                   /\ Len(lp[p]) = n_steps + 1
                   /\ lp[p][1] = 0
                   /\ tail_call.paths[p][1] = price0
                   /\ \A t \in 1..n_steps :
                          \E scale \in 0..sigma :
                              /\ scale * scale * tail_call.args[4] = sigma * sigma
                              /\ lp[p][t + 1] = lp[p][t] + scale * DrawOf(seed, n_steps, p, t)

\* Two paths of four steps of a quarter of a day that move and differ.
C9_Witness ==
    /\ IsPaths
    /\ tail_call.args[4] = 4
    /\ Len(tail_call.paths) = 2
    /\ Len(tail_call.paths[1]) = 5
    /\ tail_call.paths[1] # tail_call.paths[2]
    /\ tail_call.paths[1][2] # tail_call.args[1]

MaxTripTick == 20

PriceUnit == 100000000

Finite(v) == [cls |-> "finite", val |-> v]
PosInf == [cls |-> "inf", val |-> 1]
NegInf == [cls |-> "inf", val |-> -1]
NaN == [cls |-> "nan", val |-> 0]

PriceInputs ==
    {NaN, PosInf, NegInf} \cup
    { Finite(v) : v \in {0 - PriceUnit, -1, 0, PriceUnit - 200000, PriceUnit, PriceUnit + 1,
                         PriceUnit + 5000, PriceUnit + 200000} }

\* The guard as price <= 1.
price_le_one(price) ==
    CASE price.cls = "finite" -> price.val <= PriceUnit
      [] price.cls = "inf" -> price.val < 0
      [] price.cls = "nan" -> FALSE

\* price <= 0: false for NaN, as every comparison with NaN is.
price_le_zero(price) ==
    CASE price.cls = "finite" -> price.val <= 0
      [] price.cls = "inf" -> price.val < 0
      [] price.cls = "nan" -> FALSE

half_step_up(h) == h + RoundHalfEven(2 * h, 40001)

half_step_down(h) == h - RoundHalfEven(2 * h, 40003)

RECURSIVE log_up(_, _, _)
\* From sqrt(1.0001)^m = h <= p upwards.
log_up(p, m, h) ==
    IF half_step_up(h) > p THEN [half |-> m, exact |-> (h = p)]
    ELSE log_up(p, m + 1, half_step_up(h))

RECURSIVE log_down(_, _, _)
\* From sqrt(1.0001)^m = h downwards, until h <= p.
log_down(p, m, h) ==
    IF h <= p THEN [half |-> m, exact |-> (h = p)]
    ELSE log_down(p, m - 1, half_step_down(h))

\* math.log(p, 1.0001) for a finite p > 0, floored to half ticks, and whether
\* it is that number of half ticks exactly.
math_log(p) ==
    IF p >= PriceUnit THEN log_up(p, 0, PriceUnit) ELSE log_down(p, 0, PriceUnit)

\* round(x): the nearest integer, the even one when x is half way.
round(x) ==
    IF x.half % 2 = 0 THEN x.half \div 2
    ELSE IF x.exact
         THEN (IF ((x.half - 1) \div 2) % 2 = 0 THEN (x.half - 1) \div 2 ELSE (x.half + 1) \div 2)
         ELSE (x.half + 1) \div 2

\* price_to_tick: what it raises, or the int it returns.  math.log of NaN is
\* NaN and of +inf is +inf; round() of them raises ValueError and
\* OverflowError.
price_to_tick(price) ==
    IF price_le_zero(price) THEN [kind |-> "ValueError", val |-> 0]
    ELSE CASE price.cls = "nan" -> [kind |-> "ValueError", val |-> 0]
           [] price.cls = "inf" -> [kind |-> "OverflowError", val |-> 0]
           [] price.cls = "finite" -> [kind |-> "int", val |-> round(math_log(price.val))]

\* tick_to_price(tick_in)
TickToPrice ==
    /\ pcMath = "start"
    /\ price_arg' = Finite(tick_to_price_at(PriceUnit, tick_in))
    /\ pcMath' = "priced"
    /\ UNCHANGED <<tick_in, tick_result>>
    /\ UNCHANGED mathOthers

\* price_to_tick of any price, or of the price tick_to_price returned.
PriceToTick ==
    /\ pcMath \in {"start", "priced"}
    /\ \E price \in (IF pcMath = "start" THEN PriceInputs ELSE {price_arg}) :
        /\ price_arg' = price
        /\ tick_result' = price_to_tick(price)
    /\ pcMath' = IF pcMath = "start" THEN "ticked" ELSE "round_trip"
    /\ UNCHANGED tick_in
    /\ UNCHANGED mathOthers

InitMath ==
    /\ tick_in \in (0 - MaxTripTick)..MaxTripTick
    /\ price_arg = Finite(0)
    /\ tick_result = [kind |-> "none", val |-> 0]
    /\ pcMath = "start"

MathOff ==
    /\ tick_in = 0
    /\ price_arg = Finite(0)
    /\ tick_result = [kind |-> "none", val |-> 0]
    /\ pcMath = "off"

NextMath == TickToPrice \/ PriceToTick

(***************************************************************************)
(* Properties of the tick / price conversions                              *)
(***************************************************************************)
IsNonPositive(price) == (price.cls = "finite" /\ price.val <= 0) \/ price = NegInf

IsPositive(price) == (price.cls = "finite" /\ price.val > 0) \/ price = PosInf

PriceToTickDone == pcMath \in {"ticked", "round_trip"}

\* C11 (as claimed): price_to_tick raises ValueError for every price <= 0 and
\* returns an integer tick for every price > 0.
C11_EveryPositivePriceHasATick ==
    PriceToTickDone =>
        /\ IsNonPositive(price_arg) => tick_result.kind = "ValueError"
        /\ IsPositive(price_arg) => tick_result.kind = "int"

\* C11 (amended): price_to_tick raises ValueError for every price <= 0 and
\* returns an integer tick for every finite price > 0; for the price +inf,
\* which is > 0, it raises OverflowError instead of returning.
C11_EveryFinitePositivePriceHasATick ==
    PriceToTickDone =>
        /\ IsNonPositive(price_arg) => tick_result.kind = "ValueError"
        /\ (price_arg.cls = "finite" /\ price_arg.val > 0) => tick_result.kind = "int"
        /\ price_arg = PosInf => tick_result.kind = "OverflowError"

\* C11 witness: price_to_tick has raised ValueError for the price 0.
C11_Witness ==
    /\ pcMath = "ticked"
    /\ price_arg = Finite(0)
    /\ tick_result.kind = "ValueError"

LevelTradeSizes == <<8, 16>>
LevelK == FloatScale

NoLevel == [kind |-> "none", depth_level |-> 0, slippage |-> <<>>]

\* slippage_from_depth_proxy(depth_curve, trade_sizes, k=k) on the curve that
\* depth_curve_from_profile returned; .iloc[0] of an empty curve raises IndexError.
SlippageOfDepthCurve ==
    /\ pcDepth = "curved"
    /\ pcLevel = "start"
    /\ level_result' =
          IF depth_curve = <<>>
          THEN [kind |-> "IndexError", depth_level |-> 0, slippage |-> <<>>]
          ELSE [kind |-> "returned", depth_level |-> representative_depth(depth_curve),
                slippage |-> slippage_from_depth_proxy(depth_curve, LevelTradeSizes, LevelK)]
    /\ pcLevel' = "done"
    /\ UNCHANGED levelOthers

InitLevel ==
    /\ level_result = NoLevel
    /\ pcLevel = "start"

LevelOff ==
    /\ level_result = NoLevel
    /\ pcLevel = "off"

NextLevel == BuildProfile \/ DepthCurve \/ SlippageOfDepthCurve

(***************************************************************************)
(* Properties of the depth level                                           *)
(***************************************************************************)
\* The percentage moves are distinct and come in pairs -m, m (0 its own pair).
SymmetricMoves ==
    /\ pct_moves # <<>>
    /\ \A i, j \in 1..Len(pct_moves) : i # j => pct_moves[i] # pct_moves[j]
    /\ \A i \in 1..Len(pct_moves) : \E j \in 1..Len(pct_moves) : pct_moves[j] = 0 - pct_moves[i]

\* The pct_move at position floor(n / 2), counted from 0, of the moves in
\* ascending order.
MidMove ==
    CHOOSE v \in { pct_moves[i] : i \in 1..Len(pct_moves) } :
        /\ Cardinality({ i \in 1..Len(pct_moves) : pct_moves[i] < v }) <= Len(pct_moves) \div 2
        /\ Cardinality({ i \in 1..Len(pct_moves) : pct_moves[i] <= v }) > Len(pct_moves) \div 2

\* The depth_proxy of the rows of the curve with the given move.
DepthAt(v) == depth_curve[CHOOSE i \in 1..Len(depth_curve) : depth_curve[i].pct_move = v].depth_proxy

\* Some row of a largest |pct_move| has a positive depth_proxy.
LiquidityWithinLargestMove ==
    \E i \in 1..Len(depth_curve) :
        /\ \A j \in 1..Len(depth_curve) : Abs(depth_curve[j].pct_move) <= Abs(depth_curve[i].pct_move)
        /\ depth_curve[i].depth_proxy > 0

\* The profile rows between the current price and the target of the move v.
RowsWithinMove(v) ==
    RowsBetween(Min2(current_price * PriceScale, current_price * (PriceScale + v)),
                Max2(current_price * PriceScale, current_price * (PriceScale + v)))

LevelReturned == pcLevel = "done" /\ level_result.kind = "returned"

\* The one depth_level is the depth_proxy at MidMove, it is used for every trade
\* size, and for symmetric moves MidMove is a move of smallest |pct_move|.
LevelIsMidRow ==
    /\ level_result.depth_level = DepthAt(MidMove)
    /\ Len(level_result.slippage) = Len(LevelTradeSizes)
    /\ \A i \in 1..Len(LevelTradeSizes) :
           /\ level_result.slippage[i].trade_size = LevelTradeSizes[i]
           /\ level_result.slippage[i].implied_slippage =
                  fl_div(fl_mul(LevelK, LevelTradeSizes[i]), fl_add(level_result.depth_level, eps))
    /\ SymmetricMoves => \A i \in 1..Len(pct_moves) : Abs(MidMove) <= Abs(pct_moves[i])

\* C13 (as claimed): the depth_level applied to every trade size is the
\* depth_proxy of the row at position floor(n / 2) of the curve sorted by
\* pct_move, for symmetric moves a row of smallest |pct_move|, and depth_level
\* is > 0 whenever the profile has positive active liquidity within the
\* largest move.
C13_LevelPositiveWithinLargestMove ==
    LevelReturned =>
        /\ LevelIsMidRow
        /\ LiquidityWithinLargestMove => level_result.depth_level > 0

\* C13 (amended): the depth_level applied to every trade size is the
\* depth_proxy of the row at position floor(n / 2) of the curve sorted by
\* pct_move, for symmetric moves a row of smallest |pct_move|; depth_level is
\* >= 0 and is > 0 exactly when the profile has positive active liquidity
\* between the current price and the target price of that row, which liquidity
\* within the largest move does not ensure.
C13_LevelPositiveWithinMidMove ==
    LevelReturned =>
        /\ LevelIsMidRow
        /\ level_result.depth_level >= 0
        /\ level_result.depth_level > 0 <=>
               \E j \in RowsWithinMove(MidMove) : profile[j].active_liquidity > 0

\* C13 witness: four symmetric moves given out of order, the level taken from
\* the row of the move +1 and positive, with more depth within the largest move.
C13_Witness ==
    /\ LevelReturned
    /\ SymmetricMoves
    /\ Len(pct_moves) = 4
    /\ pct_moves[1] > pct_moves[2]
    /\ MidMove = 1
    /\ level_result.depth_level > 0
    /\ DepthAt(2) > level_result.depth_level

(***************************************************************************)
(* Specifications                                                          *)
(***************************************************************************)
DepthStart == InitDepth /\ SlipOff /\ FetchOff /\ GqlOff /\ StoreOff /\ RangeOff /\ TailOff /\ MathOff /\ LevelOff

SpecDepth == DepthStart /\ [][NextDepth]_vars

SlipStart == InitSlip /\ DepthOff /\ FetchOff /\ GqlOff /\ StoreOff /\ RangeOff /\ TailOff /\ MathOff /\ LevelOff

SpecSlip == SlipStart /\ [][NextSlip]_vars

FetchStart == InitFetch /\ DepthOff /\ SlipOff /\ GqlOff /\ StoreOff /\ RangeOff /\ TailOff /\ MathOff /\ LevelOff

\* The script runs to its end: each step of main is taken once it is enabled.
SpecFetch ==
    FetchStart /\ [][NextFetch]_vars /\ WF_vars(FetchPage) /\ WF_vars(BuildTicksFrame)

GqlStart == InitGql /\ DepthOff /\ SlipOff /\ FetchOff /\ StoreOff /\ RangeOff /\ TailOff /\ MathOff /\ LevelOff

SpecRetry == GqlStart /\ [][NextGql]_vars

StoreStart == InitStore /\ DepthOff /\ SlipOff /\ FetchOff /\ GqlOff /\ RangeOff /\ TailOff /\ MathOff /\ LevelOff

SpecStore == StoreStart /\ [][NextStore]_vars

RangeStart == InitRange /\ DepthOff /\ SlipOff /\ FetchOff /\ GqlOff /\ StoreOff /\ TailOff /\ MathOff /\ LevelOff

SpecRange == RangeStart /\ [][NextRange]_vars

TailStart == InitTail /\ DepthOff /\ SlipOff /\ FetchOff /\ GqlOff /\ StoreOff /\ RangeOff /\ MathOff /\ LevelOff

SpecTail == TailStart /\ [][NextTail]_vars

MathStart == InitMath /\ DepthOff /\ SlipOff /\ FetchOff /\ GqlOff /\ StoreOff /\ RangeOff /\ TailOff /\ LevelOff

SpecMath == MathStart /\ [][NextMath]_vars

LevelStart == InitDepth /\ InitLevel /\ SlipOff /\ FetchOff /\ GqlOff /\ StoreOff /\ RangeOff /\ TailOff /\ MathOff

SpecLevel == LevelStart /\ [][NextLevel]_vars

====
